---- MODULE Spec2Model ----
(***************************************************************************)
(* The ledger of fundybackend: user balances, deposits, withdrawals,       *)
(* purchases and earnings, and the request handlers that change them.      *)
(*                                                                         *)
(* Money is counted in ten-thousandths of a currency unit; the offers are   *)
(* chosen so that price * rate has at most four decimal places, so the     *)
(* Decimal products of the code are exact here, and a Numeric(10, 2)       *)
(* amount is rounded to two places where the code reads it back.  Time is  *)
(* counted in ticks, TicksPerDay ticks to 24 hours;                        *)
(* datetime.now(timezone.utc) is the variable now.                         *)
(***************************************************************************)
EXTENDS Integers, Sequences, FiniteSets, TLC

VARIABLES now, balance, deposits, withdrawals, purchases, earnings, nextEarningId, resp,
          sessions

vars == <<now, balance, deposits, withdrawals, purchases, earnings, nextEarningId, resp,
          sessions>>

---------------------------------------------------------------------------
(* Bounds of the model *)

MaxTime == 2
TicksPerDay == 2
MaxPurchases == 2
MaxEarningIds == 2
MaxDeposits == 2
MaxWithdrawals == 1

Users == {1, 2}

\* Money and rates are counted in ten-thousandths: daily_earning_rate is
\* Numeric(5, 4), so 0.09 is 900 and the amount 100.01 is 1000100.
Unit == 10000

\* One hundredth of a currency unit: the scale of the Numeric(10, 2) columns
Cent == 100

\* deposit_data.amount: within [100, 10000]
DepositAmounts == {100 * Unit, 200 * Unit}

\* withdrawal_in.amount: gt=0
WithdrawalAmounts == {50 * Unit, 200 * Unit}

\* PurchaseCreate: purchase_price >= 100 with two decimal places,
\* 0 < daily_earning_rate <= 0.5, 0 < earning_duration_days <= 365.
\* 100.00 at 0.5 for one day; 100.01 at 0.09 ("Silver") for two days.
Offers ==
    { [price |-> 100 * Unit, rate |-> 5000, days |-> 1],
      [price |-> 100 * Unit + Cent, rate |-> 900, days |-> 2] }

\* batch_size of the sweep (default 100)
BatchSizes == {1, 2}

\* A nullable DateTime column that holds NULL
None == 0 - 1

\* The requests that may be in progress at the same time, each with its own
\* database session (get_db)
Procs == {1, 2}

\* No purchase data
NoOffer == [price |-> 0, rate |-> 0, days |-> 0]

\* The session of a process that serves no request: op is the handler, pc its
\* position, arg the row or the user it works on, bal the balance it holds for
\* the user, offer the purchase data of the request, bs the batch_size of a
\* sweep, batch the earnings it fetched, credited the ids it counted as credited
Idle ==
    [op |-> "idle", pc |-> "idle", arg |-> 0, bal |-> 0, offer |-> NoOffer, bs |-> 0,
     batch |-> {}, credited |-> {}]

---------------------------------------------------------------------------
(* Rows *)

RECURSIVE SumAmounts(_)
SumAmounts(S) ==
    IF S = {} THEN 0
    ELSE LET e == CHOOSE x \in S : TRUE
         IN  e.amount + SumAmounts(S \ {e})

\* Purchase._ensure_aware: None stays None; a naive datetime is read as UTC and an
\* aware one is converted to UTC, so the instant (the tick) is kept.
EnsureAware(dt) == IF dt = None THEN None ELSE dt

\* A Numeric(10, 2) value as the program reads it.  SQLite has no decimal type:
\* the value is stored as a float and every read (of a column or of func.sum over
\* it) is formatted with two decimal places, to the nearest hundredth.
Numeric2(x) == ((x + Cent \div 2) \div Cent) * Cent

\* Purchase.daily_earning_amount: price * rate, a product of Decimals that keeps
\* all its places (price is a whole number of hundredths)
DailyEarningAmount(p) == ((p.price \div Cent) * p.rate) \div Cent

\* max_earning = price * rate * earning_duration_days
MaxEarning(p) == DailyEarningAmount(p) * p.days

PurchaseIds == 1..Len(purchases)

PurchasesOf(u) == {i \in PurchaseIds : purchases[i].user = u}

\* validate_balance that accepts every value
ValidateBalanceAny(b) == TRUE

\* User.validate_balance: a negative balance raises ValueError
ValidateBalance(b) == b >= 0

\* The earnings table without its unique index
UniqueDailyMissing(E) == TRUE

\* ix_earning_unique_daily: unique (purchase_id, earning_date);
\* check_positive_earning_amount: amount > 0
UniqueDaily(E) ==
    \A e1, e2 \in E :
        (e1.id # e2.id) => ~(e1.purchase = e2.purchase /\ e1.earning_date = e2.earning_date)

EarningsCommitOK(E) == UniqueDaily(E) /\ \A e \in E : e.amount > 0

Respond(op, code) == resp' = [op |-> op, code |-> code]

---------------------------------------------------------------------------
(* Initial state: the users are registered with balance 0.0, no rows. *)

Init ==
    /\ now = 0
    /\ balance = [u \in Users |-> 0]
    /\ deposits = <<>>
    /\ withdrawals = <<>>
    /\ purchases = <<>>
    /\ earnings = {}
    /\ nextEarningId = 1
    /\ resp = [op |-> "none", code |-> 0]
    /\ sessions = [s \in Procs |-> Idle]

\* The clock advances.
Tick ==
    /\ now < MaxTime
    /\ now' = now + 1
    /\ UNCHANGED <<balance, deposits, withdrawals, purchases, earnings, nextEarningId, resp>>
    /\ UNCHANGED sessions

---------------------------------------------------------------------------
(* Deposits *)

\* POST /deposits: a PENDING deposit row, the balance untouched
CreateDeposit(u, a) ==
    /\ deposits' = Append(deposits, [user |-> u, amount |-> a, status |-> "PENDING"])
    /\ Respond("create_deposit", 201)
    /\ UNCHANGED <<now, balance, withdrawals, purchases, earnings, nextEarningId>>
    /\ UNCHANGED sessions

\* POST /admin/{deposit_id}/approve
ApproveDeposit(d) ==
    /\ d \in 1..Len(deposits)
    /\ IF deposits[d].status # "PENDING"
       THEN /\ Respond("approve_deposit", 400)
            /\ UNCHANGED <<balance, deposits>>
       ELSE LET u == deposits[d].user
                b == balance[u] + deposits[d].amount
            IN  IF ValidateBalance(b)
                THEN /\ balance' = [balance EXCEPT ![u] = b]
                     /\ deposits' = [deposits EXCEPT ![d].status = "COMPLETED"]
                     /\ Respond("approve_deposit", 200)
                ELSE /\ Respond("approve_deposit", 500)
                     /\ UNCHANGED <<balance, deposits>>
    /\ UNCHANGED <<now, withdrawals, purchases, earnings, nextEarningId>>
    /\ UNCHANGED sessions

\* POST /admin/{deposit_id}/reject: Deposit.reject sets the status only
RejectDeposit(d) ==
    /\ d \in 1..Len(deposits)
    /\ IF deposits[d].status # "PENDING"
       THEN /\ Respond("reject_deposit", 400)
            /\ UNCHANGED deposits
       ELSE /\ deposits' = [deposits EXCEPT ![d].status = "REJECTED"]
            /\ Respond("reject_deposit", 200)
    /\ UNCHANGED <<now, balance, withdrawals, purchases, earnings, nextEarningId>>
    /\ UNCHANGED sessions

\* The id lists of a bulk request: BulkApprovalRequest.ids is a list of
\* integers, in which an id may occur more than once
BulkIdLists == UNION {[1..n -> 1..MaxDeposits] : n \in 1..MaxDeposits}

\* The balances a bulk approval holds in its session after the loop over ids.
\* The session does not autoflush, so the query with the filter
\* status == PENDING is answered from the committed rows D for every
\* occurrence of an id, and it returns the object the session already holds.
RECURSIVE BulkBalance(_, _, _)
BulkBalance(ids, D, b) ==
    IF ids = <<>> THEN b
    ELSE LET d == Head(ids)
         IN  IF d \in 1..Len(D) /\ D[d].status = "PENDING"
             THEN BulkBalance(Tail(ids), D, [b EXCEPT ![D[d].user] = @ + D[d].amount])
             ELSE BulkBalance(Tail(ids), D, b)

\* POST /admin/deposits/bulk-approve and POST /admin/bulk-approve: the loop
\* over the ids and one commit
BulkApproveDeposits(ids) ==
    /\ balance' = BulkBalance(ids, deposits, balance)
    /\ deposits' = [d \in 1..Len(deposits) |->
                       IF deposits[d].status = "PENDING" /\ \E k \in 1..Len(ids) : ids[k] = d
                       THEN [deposits[d] EXCEPT !.status = "COMPLETED"]
                       ELSE deposits[d]]
    /\ Respond("bulk_approve_deposits", 200)
    /\ UNCHANGED <<now, withdrawals, purchases, earnings, nextEarningId>>
    /\ UNCHANGED sessions

---------------------------------------------------------------------------
(* Withdrawals *)

\* The check of create_withdrawal: user_balance < withdrawal_in.amount
\* create_withdrawal without its balance check
WithdrawalInsufficientNever(b, a) == FALSE

WithdrawalInsufficient(b, a) == b < a

\* POST /withdrawals: the balance is not deducted until an admin approves
CreateWithdrawal(u, a) ==
    /\ IF WithdrawalInsufficient(balance[u], a)
       THEN /\ Respond("create_withdrawal", 400)
            /\ UNCHANGED withdrawals
       ELSE /\ withdrawals' = Append(withdrawals,
                                     [user |-> u, amount |-> a, status |-> "PENDING"])
            /\ Respond("create_withdrawal", 201)
    /\ UNCHANGED <<now, balance, deposits, purchases, earnings, nextEarningId>>
    /\ UNCHANGED sessions

\* The check of approve_withdrawal: Decimal(str(user.balance)) < withdrawal.amount
ApprovalInsufficient(b, a) == b < a

\* An approval that takes a withdrawal of any status
ApprovableAlways(st) == TRUE

\* The status check of approve_withdrawal: only a PENDING withdrawal is approved
Approvable(st) == st = "PENDING"

\* POST /admin/{withdrawal_id}/withdraw-approve
ApproveWithdrawal(w) ==
    /\ w \in 1..Len(withdrawals)
    /\ IF ~Approvable(withdrawals[w].status)
       THEN /\ Respond("approve_withdrawal", 400)
            /\ UNCHANGED <<balance, withdrawals>>
       ELSE LET u == withdrawals[w].user
                b == balance[u] - withdrawals[w].amount
            IN  IF ApprovalInsufficient(balance[u], withdrawals[w].amount)
                THEN /\ Respond("approve_withdrawal", 400)
                     /\ UNCHANGED <<balance, withdrawals>>
                ELSE IF ~ValidateBalance(b)
                THEN /\ Respond("approve_withdrawal", 500)
                     /\ UNCHANGED <<balance, withdrawals>>
                ELSE /\ balance' = [balance EXCEPT ![u] = b]
                     /\ withdrawals' = [withdrawals EXCEPT ![w].status = "APPROVED"]
                     /\ Respond("approve_withdrawal", 200)
    /\ UNCHANGED <<now, deposits, purchases, earnings, nextEarningId>>
    /\ UNCHANGED sessions

\* A rejection that gives the amount of the withdrawal to the user
BalanceAfterRejectRefunded(b, a) == b + a

\* The balance of the user after reject_withdrawal rejected a withdrawal of
\* amount a: the handler touches the withdrawal row only
BalanceAfterReject(b, a) == b

\* POST /admin/{withdrawal_id}/withdraw-reject
RejectWithdrawal(w) ==
    /\ w \in 1..Len(withdrawals)
    /\ IF withdrawals[w].status # "PENDING"
       THEN /\ Respond("reject_withdrawal", 400)
            /\ UNCHANGED <<balance, withdrawals>>
       ELSE /\ withdrawals' = [withdrawals EXCEPT ![w].status = "REJECTED"]
            /\ balance' = [balance EXCEPT ![withdrawals[w].user] =
                              BalanceAfterReject(@, withdrawals[w].amount)]
            /\ Respond("reject_withdrawal", 200)
    /\ UNCHANGED <<now, deposits, purchases, earnings, nextEarningId>>
    /\ UNCHANGED sessions

\* POST /admin/{withdrawal_id}/complete: the row is looked up with the filter
\* status == APPROVED
CompleteWithdrawal(w) ==
    /\ IF w \in 1..Len(withdrawals) /\ withdrawals[w].status = "APPROVED"
       THEN /\ withdrawals' = [withdrawals EXCEPT ![w].status = "COMPLETED"]
            /\ Respond("complete_withdrawal", 200)
       ELSE /\ Respond("complete_withdrawal", 404)
            /\ UNCHANGED withdrawals
    /\ UNCHANGED <<now, balance, deposits, purchases, earnings, nextEarningId>>
    /\ UNCHANGED sessions

---------------------------------------------------------------------------
(* Purchases *)

\* The check of create_purchase: current_user.balance < float(purchase_price)
PurchaseInsufficient(b, price) == b < price

\* POST /purchases/buy.  The HTTPException of the balance check is raised inside
\* the try block, so the handler's "except Exception" answers 500 for it.
CreatePurchase(u, o) ==
    /\ LET b == balance[u] - o.price
       IN  IF PurchaseInsufficient(balance[u], o.price) \/ ~ValidateBalance(b)
           THEN /\ Respond("create_purchase", 500)
                /\ UNCHANGED <<balance, purchases>>
           ELSE /\ balance' = [balance EXCEPT ![u] = b]
                /\ purchases' = Append(purchases,
                      [user |-> u, price |-> o.price, rate |-> o.rate, days |-> o.days,
                       status |-> "ACTIVE", created_at |-> now,
                       expires_at |-> now + o.days * TicksPerDay,
                       last_earning_date |-> None])
                /\ Respond("create_purchase", 201)
    /\ UNCHANGED <<now, deposits, withdrawals, earnings, nextEarningId>>
    /\ UNCHANGED sessions

---------------------------------------------------------------------------
(* Earnings: the model methods *)

EarningIds == {e.id : e \in earnings}

EarningById(id) == CHOOSE e \in earnings : e.id = id

\* "if not self.user": the owning user row exists
UserExists(u) == u \in Users

\* credit_to_user without its status guard
CreditToUserUnguarded(e, b, t) ==
    IF ~(e.user \in Users)
    THEN [earning |-> e, balance |-> b, raised |-> TRUE]
    ELSE [earning |-> [e EXCEPT !.status = "CREDITED", !.credited_at = t],
          balance |-> b, raised |-> FALSE]

\* Earning.credit_to_user applied to row e at time t with the owner's balance b:
\* the row and the balance it leaves, and whether it raised.  The statement that
\* adds the amount to the balance is commented out in the source.
CreditToUser(e, b, t) ==
    IF e.status # "PENDING"
    THEN [earning |-> e, balance |-> b, raised |-> FALSE]
    ELSE IF ~UserExists(e.user)
    THEN [earning |-> e, balance |-> b, raised |-> TRUE]
    ELSE [earning |-> [e EXCEPT !.status = "CREDITED", !.credited_at = t],
          balance |-> b, raised |-> FALSE]

\* cancel that reverses the amount whatever the status of the earning
CancelEarningAlwaysReverses(e, b) ==
    IF ~UserExists(e.user)
    THEN [earning |-> e, balance |-> b, raised |-> TRUE]
    ELSE IF ValidateBalance(b - Numeric2(e.amount))
    THEN [earning |-> [e EXCEPT !.status = "CANCELLED"],
          balance |-> b - Numeric2(e.amount), raised |-> FALSE]
    ELSE [earning |-> e, balance |-> b, raised |-> TRUE]

\* cancel that takes what the balance holds and leaves it at zero when the
\* amount of a CREDITED earning exceeds it
CancelEarningClamped(e, b) ==
    IF ~UserExists(e.user)
    THEN [earning |-> e, balance |-> b, raised |-> TRUE]
    ELSE IF e.status = "CREDITED"
    THEN [earning |-> [e EXCEPT !.status = "CANCELLED"],
          balance |-> IF b < Numeric2(e.amount) THEN 0 ELSE b - Numeric2(e.amount),
          raised |-> FALSE]
    ELSE [earning |-> [e EXCEPT !.status = "CANCELLED"], balance |-> b, raised |-> FALSE]

\* Earning.cancel applied to row e with the owner's balance b.  The assignment
\* to user.balance goes through User.validate_balance, which raises before the
\* status is changed.
CancelEarning(e, b) ==
    IF ~UserExists(e.user)
    THEN [earning |-> e, balance |-> b, raised |-> TRUE]
    ELSE IF e.status = "CREDITED"
    THEN IF ValidateBalance(b - Numeric2(e.amount))
         THEN [earning |-> [e EXCEPT !.status = "CANCELLED"],
               balance |-> b - Numeric2(e.amount), raised |-> FALSE]
         ELSE [earning |-> e, balance |-> b, raised |-> TRUE]
    ELSE [earning |-> [e EXCEPT !.status = "CANCELLED"], balance |-> b, raised |-> FALSE]

\* earning.credit_to_user() on a stored row, committed
CreditEarning(id) ==
    /\ id \in EarningIds
    /\ LET e == EarningById(id)
           r == CreditToUser(e, balance[e.user], now)
       IN  /\ earnings' = (earnings \ {e}) \cup {r.earning}
           /\ balance' = [balance EXCEPT ![e.user] = r.balance]
           /\ Respond("credit_to_user", IF r.raised THEN 500 ELSE 200)
    /\ UNCHANGED <<now, deposits, withdrawals, purchases, nextEarningId>>
    /\ UNCHANGED sessions

\* earning.cancel() on a stored row, committed
Cancel(id) ==
    /\ id \in EarningIds
    /\ LET e == EarningById(id)
           r == CancelEarning(e, balance[e.user])
       IN  /\ earnings' = (earnings \ {e}) \cup {r.earning}
           /\ balance' = [balance EXCEPT ![e.user] = r.balance]
           /\ Respond("cancel", IF r.raised THEN 500 ELSE 200)
    /\ UNCHANGED <<now, deposits, withdrawals, purchases, nextEarningId>>
    /\ UNCHANGED sessions

\* A writer of the earnings table: db.add(Earning(user_id, purchase_id, amount,
\* earning_date, status)) and commit.  The commit fails with IntegrityError when
\* a table constraint is violated.
AddEarning(i, t, st) ==
    /\ i \in PurchaseIds
    /\ nextEarningId <= MaxEarningIds
    /\ LET p == purchases[i]
           E2 == earnings \cup
                   {[id |-> nextEarningId, user |-> p.user, purchase |-> i,
                     amount |-> DailyEarningAmount(p), earning_date |-> t,
                     status |-> st, credited_at |-> None, created_at |-> now]}
       IN  IF EarningsCommitOK(E2)
           THEN /\ earnings' = E2
                /\ nextEarningId' = nextEarningId + 1
                /\ Respond("add_earning", 200)
           ELSE /\ Respond("add_earning", 500)
                /\ UNCHANGED <<earnings, nextEarningId>>
    /\ UNCHANGED <<now, balance, deposits, withdrawals, purchases>>
    /\ UNCHANGED sessions

---------------------------------------------------------------------------
(* Earnings: the handlers of routers/earn.py *)

Latest(S) == {x \in S : \A y \in S : y.created_at <= x.created_at}

\* query(Purchase).filter(user_id).order_by(created_at.desc()).first():
\* the candidates (rows of equal created_at come in no stated order)
LatestPurchases(u) ==
    {i \in PurchasesOf(u) : \A j \in PurchasesOf(u) : purchases[j].created_at <= purchases[i].created_at}

\* query(func.sum(Earning.amount)) over the ACTIVE earnings of user u for
\* purchase i
ActiveTotalOf(u, i) ==
    Numeric2(SumAmounts({e \in earnings : e.user = u /\ e.purchase = i /\ e.status = "ACTIVE"}))

\* query(func.sum(Earning.amount)) over the ACTIVE earnings of user u
ActiveTotal(u) ==
    Numeric2(SumAmounts({e \in earnings : e.user = u /\ e.status = "ACTIVE"}))

\* "if total_earnings >= max_earning": the cap check of create_earning
CapReached(total, max) == total >= max

\* create_earning that never finds the stored earning of the purchase
ExistingEarningsNone(E, u, i) == {}

\* query(Earning).filter(user_id, purchase_id): the "existing earning" candidates
ExistingEarnings(E, u, i) == {e \in E : e.user = u /\ e.purchase = i}

\* POST /earnings/create_earning
CreateEarning(u) ==
    /\ IF PurchasesOf(u) = {}
       THEN /\ Respond("create_earning", 404)
            /\ UNCHANGED <<earnings, nextEarningId>>
       ELSE \E i \in LatestPurchases(u) :
            LET p == purchases[i]
                amount == DailyEarningAmount(p)
                mine == ExistingEarnings(earnings, u, i)
            IN  IF CapReached(ActiveTotalOf(u, i), MaxEarning(p))
                THEN /\ Respond("create_earning", 400)
                     /\ UNCHANGED <<earnings, nextEarningId>>
                ELSE IF mine # {}
                THEN \E e \in Latest(mine) :
                     LET E2 == (earnings \ {e}) \cup
                                 {[e EXCEPT !.amount = Numeric2(e.amount) + amount,
                                            !.earning_date = now,
                                            !.status = "ACTIVE"]}
                     IN  IF EarningsCommitOK(E2)
                         THEN /\ earnings' = E2
                              /\ Respond("create_earning", 200)
                              /\ UNCHANGED nextEarningId
                         ELSE /\ Respond("create_earning", 500)
                              /\ UNCHANGED <<earnings, nextEarningId>>
                ELSE /\ nextEarningId <= MaxEarningIds
                     /\ LET E2 == earnings \cup
                                 {[id |-> nextEarningId, user |-> u, purchase |-> i,
                                   amount |-> amount, earning_date |-> now,
                                   status |-> "ACTIVE", credited_at |-> None,
                                   created_at |-> now]}
                        IN  IF EarningsCommitOK(E2)
                            THEN /\ earnings' = E2
                                 /\ nextEarningId' = nextEarningId + 1
                                 /\ Respond("create_earning", 200)
                            ELSE /\ Respond("create_earning", 500)
                                 /\ UNCHANGED <<earnings, nextEarningId>>
    /\ UNCHANGED <<now, balance, deposits, withdrawals, purchases>>
    /\ UNCHANGED sessions

\* A check that only refuses a user with nothing to credit
CapNotReachedNothing(total, max) == total <= 0

\* "if total_earnings < max_earning": the check of credit_total_earnings
CapNotReached(total, max) == total < max

\* credit_total_earnings without its delete
DeleteActiveNone(E, u) == E

\* query(Earning).filter(user_id, status == ACTIVE).delete(): the rows left
DeleteActive(E, u) == {e \in E : ~(e.user = u /\ e.status = "ACTIVE")}

\* credit_total_earnings of user u when purchase i is the one read
CreditTotalEarningsOf(u, i) ==
    LET total == ActiveTotal(u)
        b == balance[u] + total
    IN  IF CapNotReached(total, MaxEarning(purchases[i]))
        THEN /\ Respond("credit_total_earnings", 400)
             /\ UNCHANGED <<balance, earnings>>
        ELSE IF ~ValidateBalance(b)
        THEN /\ Respond("credit_total_earnings", 500)
             /\ UNCHANGED <<balance, earnings>>
        ELSE /\ balance' = [balance EXCEPT ![u] = b]
             /\ earnings' = DeleteActive(earnings, u)
             /\ Respond("credit_total_earnings", 200)

\* POST /earnings/credit-total-earnings.  query(Purchase).filter(user_id).first()
\* states no order: any purchase of the user may be the one read.
CreditTotalEarnings(u) ==
    /\ IF PurchasesOf(u) = {}
       THEN /\ Respond("credit_total_earnings", 404)
            /\ UNCHANGED <<balance, earnings>>
       ELSE \E i \in PurchasesOf(u) : CreditTotalEarningsOf(u, i)
    /\ UNCHANGED <<now, deposits, withdrawals, purchases, nextEarningId>>
    /\ UNCHANGED sessions

---------------------------------------------------------------------------
(* The sweep: POST /purchases/credit-pending-earnings *)

\* The decision with a 24-hour check that also holds back a purchase whose last
\* earning is exactly 24 hours old
DecisionNotStrict(p, t, force) ==
    IF p.expires_at = None THEN "skip"
    ELSE IF t >= p.expires_at THEN "expire"
    ELSE IF ~force /\ p.last_earning_date # None /\ t - p.last_earning_date <= TicksPerDay
    THEN "skip"
    ELSE "accrue"

\* The decision of the accrual loop for an ACTIVE purchase p at time t
Decision(p, t, force) ==
    LET expires_at == EnsureAware(p.expires_at)
        last == EnsureAware(p.last_earning_date)
    IN  IF expires_at = None THEN "skip"
        ELSE IF t >= expires_at THEN "expire"
        ELSE IF ~force /\ last # None /\ t - last < TicksPerDay THEN "skip"
        ELSE "accrue"

\* "db.add(earning)" in the accrual loop: earning is a local name of the function
\* that is bound only by the crediting loop further down, so the statement raises
\* UnboundLocalError and the handler's except clause rolls the session back.
AccrualRaises == TRUE

\* The purchases as the session holds them when the accrual of purchase k
\* raises: the expired purchases that the loop met before k are COMPLETED and k
\* has last_earning_date = now
AccrualSession(k, expiring, t) ==
    [i \in PurchaseIds |->
        IF i \in expiring /\ i < k THEN [purchases[i] EXCEPT !.status = "COMPLETED"]
        ELSE IF i = k THEN [purchases[i] EXCEPT !.last_earning_date = t]
        ELSE purchases[i]]

\* A rollback that leaves the changes of the session in the database
RollbackKeepsSession(committed, session) == session

\* db.rollback() in the except clause of the sweep: the rows stay as committed
Rollback(committed, session) == committed

\* One pass of "for earning in pending_earnings" over a fetched batch
CreditBatch(E, batch, t) ==
    (E \ batch) \cup {CreditToUser(e, 0, t).earning : e \in batch}

\* The crediting loop: fetch up to bs PENDING rows, credit each, commit, and stop
\* on an empty batch or one shorter than bs.
RECURSIVE CreditPhase(_, _, _)
CreditPhase(E, bs, t) ==
    LET pending == {e \in E : e.status = "PENDING"}
    IN  IF pending = {} THEN E
        ELSE LET batch == CHOOSE B \in SUBSET pending :
                              Cardinality(B) = IF Cardinality(pending) < bs
                                               THEN Cardinality(pending) ELSE bs
                 E2 == CreditBatch(E, batch, t)
             IN  IF Cardinality(batch) < bs THEN E2 ELSE CreditPhase(E2, bs, t)

Sweep(force, bs) ==
    /\ LET active == {i \in PurchaseIds : purchases[i].status = "ACTIVE"}
           accruing == {i \in active : Decision(purchases[i], now, force) = "accrue"}
           expiring == {i \in active : Decision(purchases[i], now, force) = "expire"}
       IN  IF accruing # {} /\ AccrualRaises
           THEN /\ Respond("credit_pending_earnings", 500)
                /\ LET k == CHOOSE x \in accruing : \A y \in accruing : x <= y
                   IN  purchases' = Rollback(purchases, AccrualSession(k, expiring, now))
                /\ UNCHANGED earnings
           ELSE /\ purchases' = [i \in PurchaseIds |->
                                   IF i \in expiring
                                   THEN [purchases[i] EXCEPT !.status = "COMPLETED"]
                                   ELSE purchases[i]]
                /\ earnings' = CreditPhase(earnings, bs, now)
                /\ Respond("credit_pending_earnings", 200)
    /\ UNCHANGED <<now, balance, deposits, withdrawals, nextEarningId>>
    /\ UNCHANGED sessions

\* GET /purchases/earnings-status: counts of purchases and PENDING earnings
GetEarningsStatus ==
    /\ Respond("get_earnings_status", 200)
    /\ UNCHANGED <<now, balance, deposits, withdrawals, purchases, earnings, nextEarningId>>
    /\ UNCHANGED sessions

---------------------------------------------------------------------------
(* The sweep as the steps of one request: each query and each commit is a step,
   so that the steps of two requests interleave.  The connection begins a
   transaction only at its first UPDATE, so a SELECT holds no lock. *)

\* A user_id that no row of the users table carries
NoUser == 0

\* A writer of the earnings table that adds a PENDING row whose user_id names no
\* user: the relationship Earning.user then loads as None
AddOrphanEarning(i, t) ==
    /\ i \in PurchaseIds
    /\ nextEarningId <= MaxEarningIds
    /\ LET p == purchases[i]
           E2 == earnings \cup
                   {[id |-> nextEarningId, user |-> NoUser, purchase |-> i,
                     amount |-> DailyEarningAmount(p), earning_date |-> t,
                     status |-> "PENDING", credited_at |-> None, created_at |-> now]}
       IN  IF EarningsCommitOK(E2)
           THEN /\ earnings' = E2
                /\ nextEarningId' = nextEarningId + 1
                /\ Respond("add_earning", 200)
           ELSE /\ Respond("add_earning", 500)
                /\ UNCHANGED <<earnings, nextEarningId>>
    /\ UNCHANGED <<now, balance, deposits, withdrawals, purchases>>
    /\ UNCHANGED sessions

\* A for loop that gives up the whole batch when one credit_to_user raises
CreditedOfAborting(batch, t) ==
    IF \E e \in batch : CreditToUser(e, 0, t).raised THEN {} ELSE batch

\* The rows of a fetched batch that "for earning in pending_earnings" credits:
\* a row whose credit_to_user raises is logged and passed over
CreditedOf(batch, t) == {e \in batch : ~CreditToUser(e, 0, t).raised}

\* The accrual loop and its commit, in the request of process s
SweepBegin(s, force, bs) ==
    /\ sessions[s].pc = "idle"
    /\ LET active == {i \in PurchaseIds : purchases[i].status = "ACTIVE"}
           accruing == {i \in active : Decision(purchases[i], now, force) = "accrue"}
           expiring == {i \in active : Decision(purchases[i], now, force) = "expire"}
       IN  IF accruing # {} /\ AccrualRaises
           THEN /\ Respond("credit_pending_earnings", 500)
                /\ UNCHANGED <<purchases, sessions>>
           ELSE /\ purchases' = [i \in PurchaseIds |->
                                   IF i \in expiring
                                   THEN [purchases[i] EXCEPT !.status = "COMPLETED"]
                                   ELSE purchases[i]]
                /\ sessions' = [sessions EXCEPT ![s] =
                                   [Idle EXCEPT !.op = "credit_pending_earnings",
                                                !.pc = "fetch", !.bs = bs]]
                /\ UNCHANGED resp
    /\ UNCHANGED <<now, balance, deposits, withdrawals, earnings, nextEarningId>>

\* query(Earning).filter(status == PENDING).limit(batch_size).all(): any
\* batch_size of the PENDING rows, or all of them when there are fewer.  An
\* empty result ends the request.
SweepFetch(s) ==
    /\ sessions[s].pc = "fetch"
    /\ LET pending == {e \in earnings : e.status = "PENDING"}
           n == IF Cardinality(pending) < sessions[s].bs
                THEN Cardinality(pending) ELSE sessions[s].bs
       IN  IF pending = {}
           THEN /\ sessions' = [sessions EXCEPT ![s].pc = "idle"]
                /\ Respond("credit_pending_earnings", 200)
           ELSE /\ \E B \in SUBSET pending :
                       /\ Cardinality(B) = n
                       /\ sessions' = [sessions EXCEPT ![s].pc = "credit", ![s].batch = B]
                /\ UNCHANGED resp
    /\ UNCHANGED <<now, balance, deposits, withdrawals, purchases, earnings, nextEarningId>>

\* The for loop over the fetched rows and db.commit(): each credited row is
\* written by UPDATE earnings SET status, credited_at WHERE id, and counted.  A
\* batch shorter than batch_size ends the request.
SweepCredit(s) ==
    /\ sessions[s].pc = "credit"
    /\ LET ids == {e.id : e \in CreditedOf(sessions[s].batch, now)}
       IN  /\ earnings' = {IF e.id \in ids
                            THEN [e EXCEPT !.status = "CREDITED", !.credited_at = now]
                            ELSE e : e \in earnings}
           /\ IF Cardinality(sessions[s].batch) < sessions[s].bs
              THEN /\ sessions' = [sessions EXCEPT ![s].pc = "idle",
                                                   ![s].credited = @ \cup ids]
                   /\ Respond("credit_pending_earnings", 200)
              ELSE /\ sessions' = [sessions EXCEPT ![s].pc = "fetch",
                                                   ![s].credited = @ \cup ids]
                   /\ UNCHANGED resp
    /\ UNCHANGED <<now, balance, deposits, withdrawals, purchases, nextEarningId>>

---------------------------------------------------------------------------
(* The balance-changing requests as two steps each: the handler loads the rows,
   checks them and changes them in its session; then it commits and refreshes.
   The flush writes the balance the session holds: UPDATE users SET balance = ?
   WHERE id = ?. *)

\* approve_deposit up to db.commit(): the deposit is PENDING, and the session
\* holds the user's balance plus the amount
BeginApproveDeposit(s, d) ==
    /\ sessions[s].pc = "idle"
    /\ d \in 1..Len(deposits)
    /\ IF deposits[d].status # "PENDING"
       THEN /\ Respond("approve_deposit", 400)
            /\ UNCHANGED sessions
       ELSE LET b == balance[deposits[d].user] + deposits[d].amount
            IN  IF ValidateBalance(b)
                THEN /\ sessions' = [sessions EXCEPT ![s] =
                                        [Idle EXCEPT !.op = "approve_deposit",
                                                     !.pc = "commit", !.arg = d, !.bal = b]]
                     /\ UNCHANGED resp
                ELSE /\ Respond("approve_deposit", 500)
                     /\ UNCHANGED sessions
    /\ UNCHANGED <<now, balance, deposits, withdrawals, purchases, earnings, nextEarningId>>

\* approve_withdrawal up to db.commit()
BeginApproveWithdrawal(s, w) ==
    /\ sessions[s].pc = "idle"
    /\ w \in 1..Len(withdrawals)
    /\ IF withdrawals[w].status # "PENDING"
       THEN /\ Respond("approve_withdrawal", 400)
            /\ UNCHANGED sessions
       ELSE LET u == withdrawals[w].user
                b == balance[u] - withdrawals[w].amount
            IN  IF ApprovalInsufficient(balance[u], withdrawals[w].amount)
                THEN /\ Respond("approve_withdrawal", 400)
                     /\ UNCHANGED sessions
                ELSE IF ~ValidateBalance(b)
                THEN /\ Respond("approve_withdrawal", 500)
                     /\ UNCHANGED sessions
                ELSE /\ sessions' = [sessions EXCEPT ![s] =
                                        [Idle EXCEPT !.op = "approve_withdrawal",
                                                     !.pc = "commit", !.arg = w, !.bal = b]]
                     /\ UNCHANGED resp
    /\ UNCHANGED <<now, balance, deposits, withdrawals, purchases, earnings, nextEarningId>>

\* create_purchase up to db.commit()
BeginCreatePurchase(s, u, o) ==
    /\ sessions[s].pc = "idle"
    /\ LET b == balance[u] - o.price
       IN  IF PurchaseInsufficient(balance[u], o.price) \/ ~ValidateBalance(b)
           THEN /\ Respond("create_purchase", 500)
                /\ UNCHANGED sessions
           ELSE /\ sessions' = [sessions EXCEPT ![s] =
                                   [Idle EXCEPT !.op = "create_purchase", !.pc = "commit",
                                                !.arg = u, !.bal = b, !.offer = o]]
                /\ UNCHANGED resp
    /\ UNCHANGED <<now, balance, deposits, withdrawals, purchases, earnings, nextEarningId>>

\* What db.commit() and the db.refresh() calls after it may do: both succeed,
\* the commit raises (the transaction is rolled back), or the commit succeeds
\* and a refresh raises
Outcomes == {"ok", "commit_raises", "refresh_raises"}

\* The status code a handler answers with when it returns
SuccessCode(op) == IF op = "create_purchase" THEN 201 ELSE 200

\* The user whose balance the session of process s holds
SessionUser(s) ==
    IF sessions[s].op = "approve_deposit" THEN deposits[sessions[s].arg].user
    ELSE IF sessions[s].op = "approve_withdrawal" THEN withdrawals[sessions[s].arg].user
    ELSE sessions[s].arg

\* db.commit(), the refreshes and the answer.  An exception is answered with
\* 500, by the handler's except clause (rollback) or, in approve_withdrawal, by
\* the framework, and get_db closes the session.
Finish(s, outcome) ==
    /\ sessions[s].pc = "commit"
    /\ LET t == sessions[s]
       IN  /\ IF outcome = "commit_raises"
              THEN UNCHANGED <<balance, deposits, withdrawals, purchases>>
              ELSE /\ balance' = [balance EXCEPT ![SessionUser(s)] = t.bal]
                   /\ deposits' = IF t.op = "approve_deposit"
                                  THEN [deposits EXCEPT ![t.arg].status = "COMPLETED"]
                                  ELSE deposits
                   /\ withdrawals' = IF t.op = "approve_withdrawal"
                                     THEN [withdrawals EXCEPT ![t.arg].status = "APPROVED"]
                                     ELSE withdrawals
                   /\ purchases' = IF t.op = "create_purchase"
                                   THEN Append(purchases,
                                          [user |-> t.arg, price |-> t.offer.price,
                                           rate |-> t.offer.rate, days |-> t.offer.days,
                                           status |-> "ACTIVE", created_at |-> now,
                                           expires_at |-> now + t.offer.days * TicksPerDay,
                                           last_earning_date |-> None])
                                   ELSE purchases
           /\ Respond(t.op, IF outcome = "ok" THEN SuccessCode(t.op) ELSE 500)
    /\ sessions' = [sessions EXCEPT ![s] = Idle]
    /\ UNCHANGED <<now, earnings, nextEarningId>>

---------------------------------------------------------------------------
(* Specifications *)

\* The users hold the balances that approved deposits gave them.
InitFunded ==
    /\ now = 0
    /\ balance = [u \in Users |-> IF u = 1 THEN 200 * Unit ELSE 100 * Unit]
    /\ deposits = << [user |-> 1, amount |-> 200 * Unit, status |-> "COMPLETED"],
                     [user |-> 2, amount |-> 100 * Unit, status |-> "COMPLETED"] >>
    /\ withdrawals = <<>>
    /\ purchases = <<>>
    /\ earnings = {}
    /\ nextEarningId = 1
    /\ resp = [op |-> "none", code |-> 0]
    /\ sessions = [s \in Procs |-> Idle]

\* The requests that add a row, while the model has room for the row
NewDeposit(max) ==
    \E u \in Users, a \in DepositAmounts : Len(deposits) < max /\ CreateDeposit(u, a)

NewWithdrawal(max) ==
    \E u \in Users, a \in WithdrawalAmounts : Len(withdrawals) < max /\ CreateWithdrawal(u, a)

NewPurchase(max) ==
    \E u \in Users, o \in Offers : Len(purchases) < max /\ CreatePurchase(u, o)

\* Purchases as the sweep may find them: bought at time 0 by funded users, with
\* any expiry and with last_earning_date NULL or set at time 0
InitDecide ==
    /\ now = 0
    /\ deposits = << [user |-> 1, amount |-> 300 * Unit, status |-> "COMPLETED"],
                     [user |-> 2, amount |-> 300 * Unit, status |-> "COMPLETED"] >>
    /\ withdrawals = <<>>
    /\ \E n \in 1..MaxPurchases :
           purchases \in [1..n -> { [user |-> u, price |-> 100 * Unit, rate |-> 5000,
                                     days |-> d, status |-> "ACTIVE", created_at |-> 0,
                                     expires_at |-> d * TicksPerDay,
                                     last_earning_date |-> l] :
                                   u \in Users, d \in 1..2, l \in {None, 0} }]
    /\ balance = [u \in Users |-> 300 * Unit - 100 * Unit * Cardinality(PurchasesOf(u))]
    /\ earnings = {}
    /\ nextEarningId = 1
    /\ resp = [op |-> "none", code |-> 0]
    /\ sessions = [s \in Procs |-> Idle]

\* The sweep over such purchases, as time passes
NextDecide ==
    \/ Tick
    \/ \E force \in BOOLEAN, bs \in BatchSizes : Sweep(force, bs)

SpecDecide == InitDecide /\ [][NextDecide]_vars

\* User 1 bought a one-day purchase a day ago; no sweep has run since
InitDayOld ==
    /\ now = TicksPerDay
    /\ balance = [u \in Users |-> 100 * Unit]
    /\ deposits = << [user |-> 1, amount |-> 200 * Unit, status |-> "COMPLETED"],
                     [user |-> 2, amount |-> 100 * Unit, status |-> "COMPLETED"] >>
    /\ withdrawals = <<>>
    /\ purchases = << [user |-> 1, price |-> 100 * Unit, rate |-> 5000, days |-> 1,
                       status |-> "ACTIVE", created_at |-> 0,
                       expires_at |-> TicksPerDay, last_earning_date |-> None] >>
    /\ earnings = {}
    /\ nextEarningId = 1
    /\ resp = [op |-> "none", code |-> 0]
    /\ sessions = [s \in Procs |-> Idle]

\* A PENDING row is written to the earnings table for one of the purchases ps,
\* with the owner of the purchase or with no user, while the model has room for
\* the row
NewPending(max, ps, dates) ==
    \E i \in ps, t \in dates :
        /\ nextEarningId <= max
        /\ AddEarning(i, t, "PENDING") \/ AddOrphanEarning(i, t)

\* Sweeps of two processes over the PENDING rows of the day-old purchase, step
\* by step; a second purchase may be bought meanwhile
NextSweeps ==
    \/ NewPurchase(2)
    \/ NewPending(MaxEarningIds, {1}, 1..MaxEarningIds)
    \/ \E s \in Procs, force \in BOOLEAN, bs \in BatchSizes : SweepBegin(s, force, bs)
    \/ \E s \in Procs : SweepFetch(s)
    \/ \E s \in Procs : SweepCredit(s)

SpecSweeps == InitDayOld /\ [][NextSweeps]_vars

\* The sweeps with every started request running on: a request that can take
\* its next query or commit takes it
SpecSweepsFair ==
    /\ InitDayOld
    /\ [][NextSweeps]_vars
    /\ \A s \in Procs : WF_vars(SweepFetch(s)) /\ WF_vars(SweepCredit(s))

\* The user whose requests race
Racer == 1

\* Deposits and withdrawals of one user are created, and two processes approve
\* them and buy purchases for the user, step by step
NextRace ==
    \/ \E a \in DepositAmounts : Len(deposits) < MaxDeposits - 1 /\ CreateDeposit(Racer, a)
    \/ \E a \in WithdrawalAmounts :
           Len(withdrawals) < MaxWithdrawals /\ CreateWithdrawal(Racer, a)
    \/ \E s \in Procs, d \in 1..MaxDeposits : BeginApproveDeposit(s, d)
    \/ \E s \in Procs, w \in 1..MaxWithdrawals : BeginApproveWithdrawal(s, w)
    \/ \E s \in Procs, o \in Offers :
           Len(purchases) < MaxPurchases - 1 /\ BeginCreatePurchase(s, Racer, o)
    \/ \E s \in Procs, outcome \in Outcomes : Finish(s, outcome)

SpecRace == Init /\ [][NextRace]_vars

\* The handlers that touch the deposits, withdrawals, purchases and earnings of
\* one user, with the read-only status endpoint
NextFrame ==
    \/ \E a \in DepositAmounts : Len(deposits) < MaxDeposits - 1 /\ CreateDeposit(Racer, a)
    \/ \E d \in 1..MaxDeposits : ApproveDeposit(d)
    \/ \E d \in 1..MaxDeposits : RejectDeposit(d)
    \/ \E a \in WithdrawalAmounts :
           Len(withdrawals) < MaxWithdrawals /\ CreateWithdrawal(Racer, a)
    \/ \E w \in 1..MaxWithdrawals : ApproveWithdrawal(w)
    \/ \E w \in 1..MaxWithdrawals : RejectWithdrawal(w)
    \/ \E w \in 1..MaxWithdrawals : CompleteWithdrawal(w)
    \/ \E o \in Offers : Len(purchases) < MaxPurchases - 1 /\ CreatePurchase(Racer, o)
    \/ CreateEarning(Racer)
    \/ CreditTotalEarnings(Racer)
    \/ GetEarningsStatus

SpecFrame == Init /\ [][NextFrame]_vars

\* Deposits are created, approved one by one or in bulk, and rejected
NextDeposits ==
    \/ NewDeposit(MaxDeposits)
    \/ \E d \in 1..MaxDeposits : ApproveDeposit(d)
    \/ \E d \in 1..MaxDeposits : RejectDeposit(d)
    \/ \E ids \in BulkIdLists : BulkApproveDeposits(ids)

SpecDeposits == Init /\ [][NextDeposits]_vars

\* Withdrawals are requested against approved deposits, then approved,
\* rejected and completed
NextWithdrawals ==
    \/ NewDeposit(MaxDeposits)
    \/ \E d \in 1..MaxDeposits : ApproveDeposit(d)
    \/ NewWithdrawal(MaxWithdrawals)
    \/ \E w \in 1..MaxWithdrawals : ApproveWithdrawal(w)
    \/ \E w \in 1..MaxWithdrawals : RejectWithdrawal(w)
    \/ \E w \in 1..MaxWithdrawals : CompleteWithdrawal(w)

SpecWithdrawals == Init /\ [][NextWithdrawals]_vars

\* One user holds 300.00 from two approved deposits
InitWealthy ==
    /\ now = 0
    /\ balance = [u \in Users |-> IF u = Racer THEN 300 * Unit ELSE 0]
    /\ deposits = << [user |-> Racer, amount |-> 100 * Unit, status |-> "COMPLETED"],
                     [user |-> Racer, amount |-> 200 * Unit, status |-> "COMPLETED"] >>
    /\ withdrawals = <<>>
    /\ purchases = <<>>
    /\ earnings = {}
    /\ nextEarningId = 1
    /\ resp = [op |-> "none", code |-> 0]
    /\ sessions = [s \in Procs |-> Idle]

\* The user buys purchases, collects earnings with create_earning and has them
\* credited with credit_total_earnings, as time passes
NextPortfolio ==
    \/ Tick
    \/ \E o \in Offers : Len(purchases) < MaxPurchases /\ CreatePurchase(Racer, o)
    \/ CreateEarning(Racer)
    \/ CreditTotalEarnings(Racer)

SpecPortfolio == InitWealthy /\ [][NextPortfolio]_vars

\* The request handlers of the program and the clock
Next ==
    \/ Tick
    \/ NewDeposit(MaxDeposits)
    \/ \E d \in 1..MaxDeposits : ApproveDeposit(d)
    \/ NewWithdrawal(MaxWithdrawals)
    \/ \E w \in 1..MaxWithdrawals : ApproveWithdrawal(w)
    \/ NewPurchase(MaxPurchases)
    \/ \E u \in Users : CreateEarning(u)
    \/ \E u \in Users : CreditTotalEarnings(u)
    \/ \E force \in BOOLEAN, bs \in BatchSizes : Sweep(force, bs)

Spec == Init /\ [][Next]_vars

\* The handlers that move money in and out, from the empty database
NextFunds ==
    \/ NewDeposit(MaxDeposits)
    \/ \E d \in 1..MaxDeposits : ApproveDeposit(d)
    \/ NewWithdrawal(MaxWithdrawals)
    \/ \E w \in 1..MaxWithdrawals : ApproveWithdrawal(w)
    \/ NewPurchase(MaxPurchases)

SpecFunds == Init /\ [][NextFunds]_vars

\* The earnings engine over the purchases of funded users, as time passes:
\* create_earning, credit_total_earnings and the sweep
NextEngine ==
    \/ Tick
    \/ NewPurchase(MaxPurchases)
    \/ \E u \in Users : CreateEarning(u)
    \/ \E u \in Users : CreditTotalEarnings(u)
    \/ \E force \in BOOLEAN, bs \in BatchSizes : Sweep(force, bs)

SpecEngine == InitFunded /\ [][NextEngine]_vars

\* A row is written to the earnings table, while the model has room for the row
NewEarning(max, dates) ==
    \E i \in 1..MaxPurchases, t \in dates, st \in {"PENDING", "ACTIVE"} :
        nextEarningId <= max /\ AddEarning(i, t, st)

\* The Earning model under any writer of the table: rows are added for any
\* earning date, credited and cancelled
NextRows ==
    \/ NewPurchase(MaxPurchases - 1)
    \/ NewEarning(MaxEarningIds, 0..MaxTime)
    \/ \E id \in 1..MaxEarningIds : CreditEarning(id)
    \/ \E id \in 1..MaxEarningIds : Cancel(id)

SpecRows == InitFunded /\ [][NextRows]_vars

\* The rows of the earnings table under the sweep, as time passes
NextLedger ==
    \/ Tick
    \/ NewPurchase(MaxPurchases)
    \/ NewEarning(MaxEarningIds, {now})
    \/ \E id \in 1..MaxEarningIds : CreditEarning(id)
    \/ \E id \in 1..MaxEarningIds : Cancel(id)
    \/ \E force \in BOOLEAN, bs \in BatchSizes : Sweep(force, bs)

SpecLedger == InitFunded /\ [][NextLedger]_vars

\* The operations that debit or credit a balance one row at a time, with the
\* requests that lead to them
NextBalance ==
    \/ NewDeposit(MaxDeposits - 1)
    \/ \E d \in 1..MaxDeposits : ApproveDeposit(d)
    \/ NewWithdrawal(MaxWithdrawals)
    \/ \E w \in 1..MaxWithdrawals : ApproveWithdrawal(w)
    \/ NewPurchase(MaxPurchases - 1)
    \/ NewEarning(MaxEarningIds - 1, {now})
    \/ \E id \in 1..MaxEarningIds : CreditEarning(id)
    \/ \E id \in 1..MaxEarningIds : Cancel(id)
    \/ \E u \in Users : CreditTotalEarnings(u)

SpecBalance == Init /\ [][NextBalance]_vars

\* The earnings table under create_earning, the sweep and any other writer of
\* rows, as time passes
NextTable ==
    \/ Tick
    \/ NewPurchase(MaxPurchases - 1)
    \/ NewEarning(MaxEarningIds, {now})
    \/ \E u \in Users : CreateEarning(u)
    \/ \E force \in BOOLEAN, bs \in BatchSizes : Sweep(force, bs)

SpecTable == InitFunded /\ [][NextTable]_vars

---------------------------------------------------------------------------
(* Properties *)

\* The earnings of user u that the step takes from PENDING to CREDITED
CreditedInStep(u) ==
    {e \in earnings : /\ e.user = u
                      /\ e.status = "PENDING"
                      /\ \E f \in earnings' : f.id = e.id /\ f.status = "CREDITED"}

\* C1: a step that credits PENDING earnings of a user (credit_to_user, alone or
\* in the crediting phase of the sweep) sets them CREDITED with credited_at and,
\* in the same step, raises the user's balance by exactly their amounts.
C1_CreditRaisesBalance ==
    [][\A u \in Users :
          CreditedInStep(u) # {} =>
              /\ \A e \in CreditedInStep(u) :
                     \E f \in earnings' : f.id = e.id /\ f.credited_at # None
              /\ balance'[u] = balance[u] + SumAmounts(CreditedInStep(u))]_vars

\* C2: credit_to_user is idempotent.  For every stored earning, whatever its
\* status, a second call (at the same or a later time) leaves the row and the
\* balance as the first call left them, and a call on a row that is not PENDING
\* changes nothing.
C2_CreditIdempotent ==
    \A e \in earnings : \A t2 \in now..(now + 1) :
        LET once == CreditToUser(e, balance[e.user], now)
            twice == CreditToUser(once.earning, once.balance, t2)
        IN  /\ twice.earning = once.earning
            /\ twice.balance = once.balance
            /\ ~twice.raised
            /\ (e.status # "PENDING" => once.earning = e /\ once.balance = balance[e.user])

\* credit_to_user has run while CREDITED, CANCELLED and ACTIVE rows were stored
C2_Witness ==
    /\ resp = [op |-> "credit_to_user", code |-> 200]
    /\ \E e \in earnings : e.status = "CREDITED"
    /\ \E e \in earnings : e.status \in {"CANCELLED", "ACTIVE"}

\* C4: no two rows of the earnings table share (purchase_id, earning_date),
\* whatever create_earning calls, sweeps and other writes produced them.
C4_UniquePerDay ==
    \A e1 \in earnings : \A e2 \in earnings \ {e1} :
        e1.purchase # e2.purchase \/ e1.earning_date # e2.earning_date

\* A second row for a purchase and a day that already has one was refused, after
\* create_earning had moved the stored row onto that day
C4_Witness ==
    /\ resp = [op |-> "add_earning", code |-> 500]
    /\ \E e \in earnings : e.earning_date = now /\ e.created_at < now

\* The amounts of the rows S as read from the table, summed
AmountsRead(S) == SumAmounts({[id |-> e.id, amount |-> Numeric2(e.amount)] : e \in S})

\* C5: for every purchase, the amounts of its ACTIVE and CREDITED earnings sum to
\* at most purchase_price * daily_earning_rate * earning_duration_days.
C5_CapRespected ==
    \A i \in PurchaseIds :
        AmountsRead({e \in earnings : e.purchase = i /\ e.status \in {"ACTIVE", "CREDITED"}})
            <= MaxEarning(purchases[i])

\* C6: no user's balance is ever negative.
C6_BalanceNonNegative == \A u \in Users : balance[u] >= 0

\* The cancellation of a CREDITED earning larger than the owner's balance failed
C6_Witness ==
    /\ resp = [op |-> "cancel", code |-> 500]
    /\ \E e \in earnings : e.status = "CREDITED" /\ Numeric2(e.amount) > balance[e.user]

\* C7: a purchase, a withdrawal request or a withdrawal approval for more than
\* the user's balance is answered with an error and leaves the balance and the
\* purchases and withdrawals as they were.
C7_InsufficientRejected ==
    [][/\ \A u \in Users, o \in Offers :
             (resp'.op = "create_purchase" /\ balance[u] < o.price /\ CreatePurchase(u, o)) =>
                 /\ UNCHANGED <<balance, purchases, withdrawals>>
                 /\ resp'.code >= 400
       /\ \A u \in Users, a \in WithdrawalAmounts :
             (resp'.op = "create_withdrawal" /\ balance[u] < a /\ CreateWithdrawal(u, a)) =>
                 /\ UNCHANGED <<balance, purchases, withdrawals>>
                 /\ resp'.code >= 400
       /\ \A w \in DOMAIN withdrawals :
             (/\ resp'.op = "approve_withdrawal"
              /\ withdrawals[w].status = "PENDING"
              /\ balance[withdrawals[w].user] < withdrawals[w].amount
              /\ ApproveWithdrawal(w)) =>
                 /\ UNCHANGED <<balance, purchases, withdrawals>>
                 /\ resp'.code >= 400]_vars

\* A withdrawal requested within the balance was refused approval after a
\* purchase had spent the money
C7_Witness ==
    /\ resp = [op |-> "approve_withdrawal", code |-> 400]
    /\ \E w \in DOMAIN withdrawals :
           /\ withdrawals[w].status = "PENDING"
           /\ balance[withdrawals[w].user] < withdrawals[w].amount
           /\ PurchasesOf(withdrawals[w].user) # {}

\* C8: credit_total_earnings called while the user's ACTIVE earnings sum is below
\* the max_earning of the purchase it reads is answered 400 and changes neither
\* a balance nor the earnings table.
C8_BelowCapRejected ==
    [][\A u \in Users : \A i \in PurchasesOf(u) :
          (/\ resp'.op = "credit_total_earnings"
           /\ ActiveTotal(u) < MaxEarning(purchases[i])
           /\ CreditTotalEarningsOf(u, i)) =>
              /\ UNCHANGED <<balance, earnings>>
              /\ resp'.code = 400]_vars

\* credit_total_earnings was refused to a user who holds ACTIVE earnings below
\* the cap of each of their purchases
C8_Witness ==
    /\ resp = [op |-> "credit_total_earnings", code |-> 400]
    /\ \E u \in Users :
           /\ PurchasesOf(u) # {}
           /\ ActiveTotal(u) > 0
           /\ \A i \in PurchasesOf(u) : ActiveTotal(u) < MaxEarning(purchases[i])

\* C9: a successful credit_total_earnings adds exactly the user's ACTIVE earnings
\* sum to that user's balance and deletes exactly those rows, so that the ACTIVE
\* total is zero; a call made while the ACTIVE total is zero is refused and
\* changes nothing.
C9_CreditTotalOnce ==
    [][\A u \in Users :
          /\ (resp' = [op |-> "credit_total_earnings", code |-> 200] /\ CreditTotalEarnings(u)) =>
                 /\ balance' = [balance EXCEPT ![u] = balance[u] + ActiveTotal(u)]
                 /\ earnings' = {e \in earnings : e.user # u \/ e.status # "ACTIVE"}
                 /\ ActiveTotal(u)' = 0
          /\ (/\ resp'.op = "credit_total_earnings"
              /\ PurchasesOf(u) # {}
              /\ ActiveTotal(u) = 0
              /\ CreditTotalEarnings(u)) =>
                 /\ UNCHANGED <<balance, earnings>>
                 /\ resp'.code = 400]_vars

\* What user u paid for purchases
Spent(u) == SumAmounts({[id |-> i, amount |-> purchases[i].price] : i \in PurchasesOf(u)})

\* A user whose balance holds credited earnings and who has no ACTIVE earnings
\* left was refused by credit_total_earnings
C9_Witness ==
    /\ resp = [op |-> "credit_total_earnings", code |-> 400]
    /\ \E u \in Users :
           /\ balance[u] + Spent(u) > (IF u = 1 THEN 200 * Unit ELSE 100 * Unit)
           /\ ActiveTotal(u) = 0

\* C10: a sweep sets every purchase that is ACTIVE with expires_at <= now to
\* COMPLETED.
C10_ExpiredCompleted ==
    [][(\E force \in BOOLEAN, bs \in BatchSizes : Sweep(force, bs)) =>
          \A i \in PurchaseIds :
              (purchases[i].status = "ACTIVE" /\ purchases[i].expires_at <= now) =>
                  purchases'[i].status = "COMPLETED"]_vars

C12_CreditCancelNetZero ==
    \A e \in earnings :
        e.status = "PENDING" =>
            LET credited == CreditToUser(e, balance[e.user], now)
                cancelled == CancelEarning(credited.earning, credited.balance)
            IN  /\ cancelled.earning.status = "CANCELLED"
                /\ cancelled.balance = balance[e.user]

\* The effect the cancellation of earning e has when it goes through
CancelApplied(e) ==
    /\ earnings' = (earnings \ {e}) \cup {[e EXCEPT !.status = "CANCELLED"]}
    /\ balance' = [balance EXCEPT ![e.user] =
                      IF e.status = "CREDITED" THEN @ - Numeric2(e.amount) ELSE @]

\* C13 as stated: cancel sets the earning CANCELLED whatever its status, and
\* lowers the balance, by the amount, only if the status was CREDITED.
C13_CancelAlwaysCancels ==
    [][\A id \in EarningIds :
          (resp'.op = "cancel" /\ Cancel(id)) => CancelApplied(EarningById(id))]_vars

\* C13, amended: cancel sets the earning CANCELLED and lowers the balance, by the
\* amount, only if the status was CREDITED; but when the status is CREDITED
\* and the amount exceeds the balance, cancel raises and changes nothing.
C13_CancelUnlessShort ==
    [][\A id \in EarningIds :
          (resp'.op = "cancel" /\ Cancel(id)) =>
              LET e == EarningById(id)
              IN  IF e.status = "CREDITED" /\ balance[e.user] < Numeric2(e.amount)
                  THEN UNCHANGED <<earnings, balance>> /\ resp'.code = 500
                  ELSE CancelApplied(e) /\ resp'.code = 200]_vars

\* A CREDITED earning was cancelled and its amount taken from the balance
C13_Witness ==
    /\ resp = [op |-> "cancel", code |-> 200]
    /\ \E e \in earnings :
           /\ e.status = "CANCELLED"
           /\ e.credited_at # None
           /\ balance[e.user] + Spent(e.user) < (IF e.user = 1 THEN 200 * Unit ELSE 100 * Unit)

\* The earnings that the step adds for purchase i
AddedFor(i) == {e \in earnings' : e.purchase = i /\ e.id \notin EarningIds}

\* C14: a sweep that decides to accrue for a purchase adds exactly one PENDING
\* earning of amount purchase_price * daily_earning_rate for it and sets its
\* last_earning_date to now, in the same step.
C14_AccrualCreatesEarning ==
    [][\A force \in BOOLEAN :
          (/\ resp'.op = "credit_pending_earnings"
           /\ \E bs \in BatchSizes : Sweep(force, bs)) =>
              \A i \in PurchaseIds :
                  (/\ purchases[i].status = "ACTIVE"
                   /\ Decision(purchases[i], now, force) = "accrue") =>
                      /\ Cardinality(AddedFor(i)) = 1
                      /\ \A e \in AddedFor(i) :
                             /\ e.status = "PENDING"
                             /\ e.amount = DailyEarningAmount(purchases[i])
                      /\ purchases'[i].last_earning_date = now]_vars

\* The decision as C15 words it
C15_Stated(p, t, force) ==
    IF t >= p.expires_at THEN "expire"
    ELSE IF p.last_earning_date # None /\ t - p.last_earning_date < TicksPerDay /\ ~force
    THEN "skip"
    ELSE "accrue"

\* C15: for every ACTIVE purchase and the current time, the sweep decides to
\* expire if now >= expires_at, else to skip if last_earning_date is set, less
\* than 24 hours old and force is false, else to accrue.  A purchase with no
\* last_earning_date accrues however old it is, and force changes a decision
\* only from skip to accrue.
C15_DecisionTable ==
    \A i \in PurchaseIds : \A force \in BOOLEAN :
        LET p == purchases[i]
        IN  p.status = "ACTIVE" =>
                /\ Decision(p, now, force) = C15_Stated(p, now, force)
                /\ (p.last_earning_date = None /\ now < p.expires_at =>
                        Decision(p, now, force) = "accrue")
                /\ (Decision(p, now, TRUE) # Decision(p, now, FALSE) =>
                        Decision(p, now, FALSE) = "skip" /\ Decision(p, now, TRUE) = "accrue")

\* A sweep has run over a purchase whose last earning is exactly 24 hours old,
\* and failed in the accrual it decided on
C15_Witness ==
    /\ resp = [op |-> "credit_pending_earnings", code |-> 500]
    /\ \E i \in PurchaseIds :
           /\ purchases[i].status = "ACTIVE"
           /\ now < purchases[i].expires_at
           /\ purchases[i].last_earning_date # None
           /\ now - purchases[i].last_earning_date = TicksPerDay
    /\ \A i \in PurchaseIds :
           purchases[i].status = "ACTIVE" /\ now < purchases[i].expires_at =>
               purchases[i].last_earning_date # None

\* C16: the sweep endpoint always answers with its counts and a success message.
C16_SweepAlwaysSucceeds ==
    resp.op = "credit_pending_earnings" => resp.code = 200

\* The row of the next state that carries the id of row l
RowAfter(l) == CHOOSE e \in earnings' : e.id = l.id

\* C17: when the crediting loop has gone over a fetched batch and committed,
\* every row of the batch whose user exists is CREDITED and counted, and every
\* row whose crediting raised (no user) is still PENDING and not counted.
C17_FailingRowSkipped ==
    [][\A s \in Procs :
          (/\ sessions[s].pc = "credit"
           /\ sessions'[s].pc # "credit"
           /\ SweepCredit(s)) =>
              \A l \in sessions[s].batch :
                  IF UserExists(l.user)
                  THEN /\ RowAfter(l).status = "CREDITED"
                       /\ l.id \in sessions'[s].credited
                  ELSE /\ RowAfter(l).status = "PENDING"
                       /\ l.id \notin sessions'[s].credited]_vars

\* A sweep has committed a batch that held a row of no user and a row it credited
C17_Witness ==
    \E s \in Procs :
        /\ sessions[s].pc # "credit"
        /\ \E l1 \in sessions[s].batch, l2 \in sessions[s].batch :
               /\ ~UserExists(l1.user)
               /\ l2.id \in sessions[s].credited
               /\ \E e \in earnings : e.id = l1.id /\ e.status = "PENDING"

\* C18: no earning is credited and counted by both of two concurrent sweeps.
C18_CreditedByOneSweep ==
    \A s1 \in Procs : \A s2 \in Procs \ {s1} :
        sessions[s1].credited \cap sessions[s2].credited = {}

\* The balance that the committed rows of user u account for: COMPLETED deposits
\* less APPROVED withdrawals less purchases
Accounted(u) ==
    SumAmounts({[id |-> d, amount |-> deposits[d].amount] :
                   d \in {x \in 1..Len(deposits) :
                             deposits[x].user = u /\ deposits[x].status = "COMPLETED"}})
    - SumAmounts({[id |-> w, amount |-> withdrawals[w].amount] :
                     w \in {x \in 1..Len(withdrawals) :
                               withdrawals[x].user = u /\ withdrawals[x].status = "APPROVED"}})
    - Spent(u)

\* C19: however the reads and writes of two balance-changing requests
\* interleave, the balance of a user is what the committed deposits,
\* withdrawals and purchases give in a serial order: no update is lost.
C19_NoLostUpdate == \A u \in Users : balance[u] = Accounted(u)

\* C20: a balance-changing request that fails after it changed the balance in
\* its session leaves the persisted balance, deposits, withdrawals and
\* purchases as they were.
C20_AllOrNothing ==
    [][\A s \in Procs :
          (/\ resp'.code = 500
           /\ sessions[s].pc = "commit"
           /\ sessions'[s].pc = "idle") =>
              UNCHANGED <<balance, deposits, withdrawals, purchases>>]_vars

\* The handlers that C21 lists as leaving every balance alone
C21_ReadOnly ==
    {"create_deposit", "create_withdrawal", "reject_deposit", "reject_withdrawal",
     "complete_withdrawal", "create_earning", "get_earnings_status"}

\* The handlers that C21 lists as changing a balance
C21_Changers ==
    {"approve_deposit", "approve_withdrawal", "create_purchase", "credit_total_earnings",
     "credit_to_user", "cancel"}

\* C21: a step of create_deposit, create_withdrawal, reject_deposit,
\* reject_withdrawal, complete_withdrawal, create_earning or
\* get_earnings_status leaves every user's balance unchanged, and a step that
\* changes a balance is a deposit approval, a withdrawal approval, a purchase,
\* an earning crediting or an earning cancellation.
C21_BalanceFrame ==
    [][/\ resp'.op \in C21_ReadOnly => balance' = balance
       /\ balance' # balance => resp'.op \in C21_Changers]_vars

\* A withdrawal was rejected while its user held a balance and another request
\* had changed that balance before
C21_Witness ==
    /\ resp = [op |-> "reject_withdrawal", code |-> 200]
    /\ \E w \in 1..Len(withdrawals) :
           /\ withdrawals[w].status = "REJECTED"
           /\ balance[withdrawals[w].user] > 0
           /\ PurchasesOf(withdrawals[w].user) # {}

\* C22: a CREDITED earning keeps its amount and its credited_at in every step,
\* and its status stays CREDITED or becomes CANCELLED.
C22_CreditedImmutable ==
    [][\A e \in earnings :
          e.status = "CREDITED" =>
              \E f \in earnings' :
                  /\ f.id = e.id
                  /\ f.amount = e.amount
                  /\ f.credited_at = e.credited_at
                  /\ f.status \in {"CREDITED", "CANCELLED"}]_vars

\* C23: no step adds an earning, or raises the amount of an earning, for a
\* purchase that is not ACTIVE or whose expires_at has passed.
C23_NoEarningAfterEnd ==
    [][\A i \in PurchaseIds :
          (purchases[i].status # "ACTIVE" \/ now >= purchases[i].expires_at) =>
              /\ AddedFor(i) = {}
              /\ \A e \in earnings : \A f \in earnings' :
                     (e.purchase = i /\ f.id = e.id) => f.amount <= e.amount]_vars

\* C24: a sweep that fails in its accrual phase leaves the status and the
\* last_earning_date of every purchase and the rows of the earnings table as
\* they were.
C24_AccrualFailureRollsBack ==
    [][(/\ resp'.op = "credit_pending_earnings"
        /\ resp'.code = 500
        /\ \E force \in BOOLEAN, bs \in BatchSizes : Sweep(force, bs)) =>
           UNCHANGED <<purchases, earnings>>]_vars

\* A sweep failed after it had met an expired purchase and then a purchase due
\* an accrual
C24_Witness ==
    /\ resp = [op |-> "credit_pending_earnings", code |-> 500]
    /\ \E i \in PurchaseIds, k \in PurchaseIds :
           /\ i < k
           /\ purchases[i].status = "ACTIVE" /\ now >= purchases[i].expires_at
           /\ purchases[k].status = "ACTIVE" /\ now < purchases[k].expires_at
           /\ purchases[k].last_earning_date = None

\* C25: under approve_deposit and bulk_approve_deposits the balance of a user
\* holds the amount of each of the user's approved deposits at most once.
C25_DepositCreditedOnce ==
    \A u \in Users :
        balance[u] <= SumAmounts({[id |-> d, amount |-> deposits[d].amount] :
                                     d \in {x \in 1..Len(deposits) :
                                               /\ deposits[x].user = u
                                               /\ deposits[x].status = "COMPLETED"}})

\* The amounts of the withdrawals of user u whose status is in S
WithdrawnIn(u, S) ==
    SumAmounts({[id |-> w, amount |-> withdrawals[w].amount] :
                   w \in {x \in 1..Len(withdrawals) :
                             withdrawals[x].user = u /\ withdrawals[x].status \in S}})

\* The amounts of the COMPLETED deposits of user u
Deposited(u) ==
    SumAmounts({[id |-> d, amount |-> deposits[d].amount] :
                   d \in {x \in 1..Len(deposits) :
                             deposits[x].user = u /\ deposits[x].status = "COMPLETED"}})

\* C26: under create, approve, reject and complete of withdrawals, the balance
\* of a user is short of the approved deposits by the amount of each APPROVED
\* or COMPLETED withdrawal exactly once, and by nothing for a PENDING or
\* REJECTED withdrawal.
C26_WithdrawalDeductedOnce ==
    \A u \in Users :
        balance[u] = Deposited(u) - WithdrawnIn(u, {"APPROVED", "COMPLETED"})

\* The approval of a withdrawal that is already COMPLETED was refused
C26_Witness ==
    /\ resp = [op |-> "approve_withdrawal", code |-> 400]
    /\ \E w \in 1..Len(withdrawals) : withdrawals[w].status = "COMPLETED"

\* C27: the crediting phase of every sweep that has started comes to its end.
C27_CreditingTerminates ==
    \A s \in Procs : (sessions[s].pc = "fetch") ~> (sessions[s].pc = "idle")

\* C28: cancelling a CREDITED earning whose amount exceeds the balance of its
\* user fails, leaves the earning CREDITED and the balance as it was; the
\* balance is neither negative nor set to zero by it.
C28_CancelAboveBalanceFails ==
    [][\A id \in EarningIds :
          (/\ resp'.op = "cancel"
           /\ EarningById(id).status = "CREDITED"
           /\ balance[EarningById(id).user] < Numeric2(EarningById(id).amount)
           /\ Cancel(id)) =>
              /\ resp'.code = 500
              /\ EarningById(id) \in earnings'
              /\ balance' = balance
              /\ balance'[EarningById(id).user] >= 0]_vars

\* The cancellation of a CREDITED earning was refused for a user who holds less
\* than its amount
C28_Witness ==
    /\ resp = [op |-> "cancel", code |-> 500]
    /\ \E e \in earnings :
           /\ e.status = "CREDITED"
           /\ balance[e.user] < Numeric2(e.amount)

\* C29: for a user with one purchase, what create_earning and
\* credit_total_earnings have added to the balance on account of the purchase
\* is at most purchase_price * daily_earning_rate * earning_duration_days.
C29_CumulativeCap ==
    \A u \in Users : \A i \in PurchasesOf(u) :
        PurchasesOf(u) = {i} =>
            balance[u] + Spent(u) - Deposited(u) <= MaxEarning(purchases[i])

\* C30: when credit_total_earnings credits a user with several purchases, every
\* purchase whose ACTIVE earnings it takes has an ACTIVE total that reached the
\* cap of that purchase.
C30_PerPurchaseCap ==
    [][\A u \in Users :
          (/\ resp' = [op |-> "credit_total_earnings", code |-> 200]
           /\ balance'[u] > balance[u]
           /\ Cardinality(PurchasesOf(u)) > 1) =>
              \A i \in PurchasesOf(u) :
                  (\E e \in earnings \ earnings' : e.purchase = i /\ e.status = "ACTIVE") =>
                      ActiveTotalOf(u, i) >= MaxEarning(purchases[i])]_vars

====
